---- MODULE Spec2Model ----
(***************************************************************************)
(* A model of src/simple.py: the quiz extractor, the metadata fetcher, the *)
(* image inliner and HTML rewriter, the document renderer and the          *)
(* conversation handlers of the Telegram front-end.                        *)
(*                                                                         *)
(* Python values are modelled by records whose fields always hold the same *)
(* kind of TLA+ value:                                                     *)
(*   t : the Python type ("null", "str", "int", "float", "bool", "list",   *)
(*       "dict")                                                           *)
(*   s : the characters of a str (a sequence of one-character strings)     *)
(*   n : the number of an int, float or bool                               *)
(*   a : the items of a list, the (k, val) pairs of a dict in insertion    *)
(*       order, or the parsed nodes of a str that carries HTML             *)
(* A str that carries an HTML fragment is given by the node list an HTML   *)
(* parser reads from it (field a); a plain str by its characters (s).      *)
(***************************************************************************)
EXTENDS Integers, Sequences, FiniteSets, TLC

\* ---------------------------------------------------------------- bounds
\* Top-level keys of a quiz payload.
MaxKeys == 3
\* Nodes of an HTML fragment handed to process_html_content.
MaxNodes == 2
\* Bytes of a fetched image body.
MaxBody == 3
\* Alternatives of the question of a one-question render input.
MaxAlts == 5
\* Questions of a many-question render input, and alternatives of each.
MaxQuestions == 2
MaxShortAlts == 1

SeqsUpTo(S, n) == UNION {[1..m -> S] : m \in 0..n}

\* ------------------------------------------------------- Python strings
StartsWith(s, p) == Len(s) >= Len(p) /\ SubSeq(s, 1, Len(p)) = p

\* Python's `needle in haystack` on two strs.
IsSubstring(needle, hay) ==
    \E i \in 0..(Len(hay) - Len(needle)) : SubSeq(hay, i + 1, i + Len(needle)) = needle

\* A character is a string: a printable ASCII character, TAB, LF, FF and CR
\* are written as themselves, any other character as UChar of its code point.
UChar(cp) == "U+" \o ToString(cp)

\* The characters of a string written as one word (of characters written as
\* themselves), one by one.
Chars(word) == [i \in 1..Len(word) |-> SubSeq(word, i, i)]

\* The characters str.strip() removes, those for which str.isspace() holds:
\* TAB, LF, VT, FF, CR, FS, GS, RS, US, space, NEL, the no-break space and
\* the Unicode spaces and separators.
WhitespaceCodePoints ==
    {11, 28, 29, 30, 31, 133, 160, 5760} \cup (8192..8202)
    \cup {8232, 8233, 8239, 8287, 12288}

Whitespace == {" ", "\t", "\n", "\r", "\f"} \cup {UChar(cp) : cp \in WhitespaceCodePoints}

RECURSIVE LStrip(_)
LStrip(s) == IF s # <<>> /\ Head(s) \in Whitespace THEN LStrip(Tail(s)) ELSE s

RECURSIVE RStrip(_)
RStrip(s) ==
    IF s # <<>> /\ s[Len(s)] \in Whitespace THEN RStrip(SubSeq(s, 1, Len(s) - 1)) ELSE s

\* str.strip()
Strip(s) == RStrip(LStrip(s))

\* The characters str.isdigit() accepts besides 0 to 9: the superscript,
\* circled and other digits and the decimal digits of every script (Unicode
\* 14.0, the tables of the Python that runs the program).
DigitCodePoints ==
    {185, 8304, 9450, 9471} \cup
    (178..179) \cup (1632..1641) \cup (1776..1785) \cup (1984..1993) \cup (2406..2415) \cup
    (2534..2543) \cup (2662..2671) \cup (2790..2799) \cup (2918..2927) \cup
    (3046..3055) \cup (3174..3183) \cup (3302..3311) \cup (3430..3439) \cup
    (3558..3567) \cup (3664..3673) \cup (3792..3801) \cup (3872..3881) \cup
    (4160..4169) \cup (4240..4249) \cup (4969..4977) \cup (6112..6121) \cup
    (6160..6169) \cup (6470..6479) \cup (6608..6618) \cup (6784..6793) \cup
    (6800..6809) \cup (6992..7001) \cup (7088..7097) \cup (7232..7241) \cup
    (7248..7257) \cup (8308..8313) \cup (8320..8329) \cup (9312..9320) \cup
    (9332..9340) \cup (9352..9360) \cup (9461..9469) \cup (10102..10110) \cup
    (10112..10120) \cup (10122..10130) \cup (42528..42537) \cup (43216..43225) \cup
    (43264..43273) \cup (43472..43481) \cup (43504..43513) \cup (43600..43609) \cup
    (44016..44025) \cup (65296..65305) \cup (66720..66729) \cup (68160..68163) \cup
    (68912..68921) \cup (69216..69224) \cup (69714..69722) \cup (69734..69743) \cup
    (69872..69881) \cup (69942..69951) \cup (70096..70105) \cup (70384..70393) \cup
    (70736..70745) \cup (70864..70873) \cup (71248..71257) \cup (71360..71369) \cup
    (71472..71481) \cup (71904..71913) \cup (72016..72025) \cup (72784..72793) \cup
    (73040..73049) \cup (73120..73129) \cup (92768..92777) \cup (92864..92873) \cup
    (93008..93017) \cup (120782..120831) \cup (123200..123209) \cup (123632..123641) \cup
    (125264..125273) \cup (127232..127242) \cup (130032..130041)

Digits ==
    {"0", "1", "2", "3", "4", "5", "6", "7", "8", "9"}
    \cup {UChar(cp) : cp \in DigitCodePoints}

\* str.isdigit(): non-empty and every character a digit.
IsDigit(s) == s # <<>> /\ \A i \in 1..Len(s) : s[i] \in Digits

\* ---------------------------------------------------------- JSON values
JNull == [t |-> "null", s |-> <<>>, n |-> 0, a |-> <<>>]
JStr(chars) == [t |-> "str", s |-> chars, n |-> 0, a |-> <<>>]
JHtml(nodes) == [t |-> "str", s |-> <<>>, n |-> 0, a |-> nodes]
JInt(k) == [t |-> "int", s |-> <<>>, n |-> k, a |-> <<>>]
JFloat(k) == [t |-> "float", s |-> <<>>, n |-> k, a |-> <<>>]
JBool(k) == [t |-> "bool", s |-> <<>>, n |-> k, a |-> <<>>]
JList(items) == [t |-> "list", s |-> <<>>, n |-> 0, a |-> items]
JDict(pairs) == [t |-> "dict", s |-> <<>>, n |-> 0, a |-> pairs]
KV(key, value) == [k |-> key, val |-> value]

\* `key in d` for a dict d.
HasKey(d, key) == \E i \in 1..Len(d.a) : d.a[i].k = key

\* d.get(key, default) for a dict d (keys of a parsed JSON object are unique).
DictGet(d, key, default) ==
    IF HasKey(d, key)
    THEN d.a[CHOOSE i \in 1..Len(d.a) : d.a[i].k = key].val
    ELSE default

\* Python truthiness: None, "", 0, 0.0, False, [] and {} are falsy.
Truthy(v) ==
    CASE v.t = "null" -> FALSE
      [] v.t = "str" -> v.s # <<>> \/ v.a # <<>>
      [] v.t \in {"int", "float", "bool"} -> v.n # 0
      [] OTHER -> v.a # <<>>

\* The characters of a dict key (for `str in dict` and for repr).
KeyChars(key) == Chars(key)

\* The text of a str value. A value that holds HTML is kept as its nodes; its
\* text is their markup.
NodeChars(node) ==
    IF node.tag = "text" THEN Chars(node.text)
    ELSE IF node.hasSrc THEN Chars("<img src=\"") \o node.src \o Chars("\"/>")
    ELSE Chars("<img/>")

RECURSIVE HtmlChars(_)
HtmlChars(nodes) ==
    IF nodes = <<>> THEN <<>> ELSE NodeChars(Head(nodes)) \o HtmlChars(Tail(nodes))

StrChars(v) == IF v.a # <<>> THEN HtmlChars(v.a) ELSE v.s

S843 == <<"8", "4", "3">>
SEnglish == <<"E", "n", "g", "l", "i", "s", "h">>

\* Python's `needle in container` for a str needle: "true", "false", or
\* "raise" (TypeError: argument of type ... is not iterable).
PyIn(needle, c) ==
    CASE c.t = "list" ->
           IF \E i \in 1..Len(c.a) : c.a[i].t = "str" /\ StrChars(c.a[i]) = needle
           THEN "true" ELSE "false"
      [] c.t = "str" -> IF IsSubstring(needle, StrChars(c)) THEN "true" ELSE "false"
      [] c.t = "dict" ->
           IF \E i \in 1..Len(c.a) : KeyChars(c.a[i].k) = needle THEN "true" ELSE "false"
      [] OTHER -> "raise"

\* ------------------------------------------------------------ HTML nodes
\* The nodes of a parsed fragment in document order. Only image elements and
\* their src attribute matter to the code; every other node is a text node.
TextNode(txt) == [tag |-> "text", hasSrc |-> FALSE, src |-> <<>>, text |-> txt]
ImgNode(srcChars) == [tag |-> "img", hasSrc |-> TRUE, src |-> srcChars, text |-> ""]
ImgNoSrc == [tag |-> "img", hasSrc |-> FALSE, src |-> <<>>, text |-> ""]

\* ------------------------------------------------------- image inliner
SHttp == <<"h", "t", "t", "p", ":", "/", "/">>
SHttps == <<"h", "t", "t", "p", "s", ":", "/", "/">>
SSlashes == <<"/", "/">>
SHttpsColon == <<"h", "t", "t", "p", "s", ":">>
SData == <<"d", "a", "t", "a", ":">>
SBase64Marker == <<";", "b", "a", "s", "e", "6", "4", ",">>
SImagePng == <<"i", "m", "a", "g", "e", "/", "p", "n", "g">>

\* The base64 alphabet of RFC 4648; the value of a character is its index - 1.
B64Alphabet ==
    <<"A", "B", "C", "D", "E", "F", "G", "H", "I", "J", "K", "L", "M", "N", "O", "P",
      "Q", "R", "S", "T", "U", "V", "W", "X", "Y", "Z", "a", "b", "c", "d", "e", "f",
      "g", "h", "i", "j", "k", "l", "m", "n", "o", "p", "q", "r", "s", "t", "u", "v",
      "w", "x", "y", "z", "0", "1", "2", "3", "4", "5", "6", "7", "8", "9", "+", "/">>

B64Char(v) == B64Alphabet[v + 1]

\* base64.b64encode on a sequence of bytes (0..255): three bytes give four
\* characters, a last group of one or two bytes is padded with "=".
RECURSIVE B64Encode(_)
B64Encode(bytes) ==
    IF bytes = <<>> THEN <<>>
    ELSE IF Len(bytes) = 1
    THEN <<B64Char(bytes[1] \div 4), B64Char((bytes[1] % 4) * 16), "=", "=">>
    ELSE IF Len(bytes) = 2
    THEN <<B64Char(bytes[1] \div 4),
           B64Char((bytes[1] % 4) * 16 + bytes[2] \div 16),
           B64Char((bytes[2] % 16) * 4), "=">>
    ELSE <<B64Char(bytes[1] \div 4),
           B64Char((bytes[1] % 4) * 16 + bytes[2] \div 16),
           B64Char((bytes[2] % 16) * 4 + bytes[3] \div 64),
           B64Char(bytes[3] % 64)>>
         \o B64Encode(SubSeq(bytes, 4, Len(bytes)))

\* The outcome of requests.get(img_url) + raise_for_status: a response with a
\* body and an optional Content-Type header, or a failure.
ImgFailures == {"connection_error", "timeout", "http_4xx", "http_5xx"}
ImgOk(hasCtype, ctype, body) ==
    [kind |-> "ok", hasCtype |-> hasCtype, ctype |-> ctype, body |-> body]
ImgFailed(kind) == [kind |-> kind, hasCtype |-> FALSE, ctype |-> <<>>, body |-> <<>>]

DataUri(ctype, body) == SData \o ctype \o SBase64Marker \o B64Encode(body)

Returned(value) == [raised |-> FALSE, value |-> value]
Raised == [raised |-> TRUE, value |-> <<>>]

download_and_encode_image_NoDefaultType(img_url, outcome) ==
    IF outcome.kind = "ok"
    THEN Returned(DataUri(outcome.ctype, outcome.body))
    ELSE Returned(img_url)

download_and_encode_image_NoExcept(img_url, outcome) ==
    IF outcome.kind = "ok"
    THEN Returned(DataUri(IF outcome.hasCtype THEN outcome.ctype ELSE SImagePng, outcome.body))
    ELSE Raised

\* download_and_encode_image: the data URI of a fetched image; when the fetch
\* fails, the except clause returns the URL the function was given.
download_and_encode_image(img_url, outcome) ==
    IF outcome.kind = "ok"
    THEN Returned(DataUri(IF outcome.hasCtype THEN outcome.ctype ELSE SImagePng, outcome.body))
    ELSE Returned(img_url)

\* ------------------------------------------------------ content rewriter
\* The src a fetch is attempted with: a protocol-relative URL gets "https:".
FixProtocol(src) == IF StartsWith(src, SSlashes) THEN SHttpsColon \o src ELSE src

IsHttpUrl(src) == StartsWith(src, SHttp) \/ StartsWith(src, SHttps)

\* The image elements of a node list.
RECURSIVE ImgCount(_)
ImgCount(nodes) ==
    IF nodes = <<>> THEN 0
    ELSE (IF Head(nodes).tag = "img" THEN 1 ELSE 0) + ImgCount(Tail(nodes))

\* An image element fetched only when no earlier element has its URL: a cache.
ShouldFetch_Cached(nodes, i) ==
    /\ nodes[i].tag = "img" /\ nodes[i].hasSrc /\ nodes[i].src # <<>>
    /\ IsHttpUrl(FixProtocol(nodes[i].src))
    /\ \A j \in 1..(i - 1) : FixProtocol(nodes[j].src) # FixProtocol(nodes[i].src)

\* `if src:` and the startswith test of lines 61-67, for the i-th node: the
\* nodes before it play no part.
ShouldFetch(nodes, i) ==
    /\ nodes[i].tag = "img" /\ nodes[i].hasSrc /\ nodes[i].src # <<>>
    /\ IsHttpUrl(FixProtocol(nodes[i].src))

\* outs holds one fetch outcome for each image element, in document order:
\* the outcome the network gives if that element is fetched. The outcome of
\* the i-th node of a fragment whose first image element is number offset + 1.
OutcomeOf(nodes, i, outs, offset) == outs[offset + ImgCount(SubSeq(nodes, 1, i))]

\* One turn of the loop over soup.find_all('img'): the src after the turn.
RewriteSrc(nodes, i, outs, offset) ==
    IF ShouldFetch(nodes, i)
    THEN download_and_encode_image(FixProtocol(nodes[i].src), OutcomeOf(nodes, i, outs, offset))
    ELSE Returned(nodes[i].src)

\* The URLs fetched by the turns for the first i nodes, in order.
RECURSIVE FetchedUpTo(_, _)
FetchedUpTo(nodes, i) ==
    IF i = 0 THEN <<>>
    ELSE FetchedUpTo(nodes, i - 1)
         \o (IF ShouldFetch(nodes, i) THEN <<FixProtocol(nodes[i].src)>> ELSE <<>>)

HtmlReturned(nodes, fetched) == [status |-> "returned", nodes |-> nodes, fetched |-> fetched]
HtmlRaised(fetched) == [status |-> "raised", nodes |-> <<>>, fetched |-> fetched]
HtmlPending == [status |-> "pending", nodes |-> <<>>, fetched |-> <<>>]

\* process_html_content: a falsy argument gives "" and no parse; BeautifulSoup
\* takes a str and raises on any other truthy value; the loop rewrites the src
\* of each image element in turn and stops at the first call that raises; the
\* result is the serialised tree, here its node list.
process_html_content(html_string, outs, offset) ==
    IF ~Truthy(html_string) THEN HtmlReturned(<<>>, <<>>)
    ELSE IF html_string.t # "str" THEN HtmlRaised(<<>>)
    ELSE LET nodes == html_string.a
             raising == {i \in 1..Len(nodes) : RewriteSrc(nodes, i, outs, offset).raised}
         IN  IF raising # {}
             THEN HtmlRaised(FetchedUpTo(nodes, CHOOSE i \in raising : \A j \in raising : i <= j))
             ELSE HtmlReturned(
                      [i \in 1..Len(nodes) |->
                          [nodes[i] EXCEPT !.src = RewriteSrc(nodes, i, outs, offset).value]],
                      FetchedUpTo(nodes, Len(nodes)))

\* ------------------------------------------------ HTML fragments (inputs)
SampleSrcs ==
    {<<>>,
     SSlashes \o <<"e", "/", "a">>,
     SHttp \o <<"e", "/", "a">>,
     SHttps \o <<"e", "/", "b">>,
     SData \o <<"x">>,
     <<"a", ".", "p", "n", "g">>,
     <<"/", "a">>}

SampleNodes == {TextNode("t"), ImgNoSrc} \cup {ImgNode(src) : src \in SampleSrcs}

SampleFragments == {JNull} \cup {JHtml(nodes) : nodes \in SeqsUpTo(SampleNodes, MaxNodes)}

SJpeg == <<"i", "m", "a", "g", "e", "/", "j", "p", "e", "g">>
SampleBytes == {0, 77, 255}

\* A few outcomes, for fragments of several images.
CoarseOutcomes ==
    {ImgFailed(kind) : kind \in ImgFailures}
    \cup {ImgOk(TRUE, SJpeg, <<77>>), ImgOk(FALSE, <<>>, <<>>)}

\* Every body of up to MaxBody bytes, with and without a Content-Type header.
RichOutcomes ==
    {ImgFailed(kind) : kind \in ImgFailures}
    \cup {ImgOk(TRUE, SJpeg, body) : body \in SeqsUpTo(SampleBytes, MaxBody)}
    \cup {ImgOk(FALSE, <<>>, body) : body \in SeqsUpTo(SampleBytes, MaxBody)}

\* ------------------------------------------------------- quiz extractor
\* What fetch_locale_json_from_api returns: None, or a list of questions.
NoneResult == [tag |-> "None", list |-> <<>>]
ListResult(l) == [tag |-> "list", list |-> l]
PendingResult == [tag |-> "pending", list |-> <<>>]

is_valid_question_object(data_obj) ==
    /\ data_obj.t = "dict"
    /\ HasKey(data_obj, "body")
    /\ HasKey(data_obj, "alternatives")
    /\ DictGet(data_obj, "alternatives", JNull).t = "list"

\* `"843" in languages or "English" in language_names` with Python's
\* short-circuit: "true", "false" or "raise".
MarkedEnglish(english_version) ==
    LET languages == DictGet(english_version, "language", JList(<<>>))
        language_names == DictGet(english_version, "language_names", JList(<<>>))
        first == PyIn(S843, languages)
    IN  IF first # "false" THEN first ELSE PyIn(SEnglish, language_names)

QuestionOf(english_version) ==
    [body |-> DictGet(english_version, "body", JStr(<<>>)),
     alternatives |-> DictGet(english_version, "alternatives", JList(<<>>))]

\* One turn of the loop over raw_data.items(): "append", "skip" or "raise".
EntryStep(question_data_by_language) ==
    IF question_data_by_language.t # "dict" THEN "skip"
    ELSE LET english_version == DictGet(question_data_by_language, "843", JNull)
         IN  IF ~is_valid_question_object(english_version) THEN "skip"
             ELSE LET m == MarkedEnglish(english_version)
                  IN  CASE m = "true" -> "append"
                        [] m = "false" -> "skip"
                        [] OTHER -> "raise"

\* The loop: an exception in any turn leaves the function through
\* `except Exception`, which returns None.
RECURSIVE ProcessEntries(_, _)
ProcessEntries(pairs, processed_questions) ==
    IF pairs = <<>> THEN ListResult(processed_questions)
    ELSE LET step == EntryStep(Head(pairs).val)
         IN  CASE step = "raise" -> NoneResult
               [] step = "append" ->
                    ProcessEntries(Tail(pairs),
                        Append(processed_questions,
                               QuestionOf(DictGet(Head(pairs).val, "843", JNull))))
               [] OTHER -> ProcessEntries(Tail(pairs), processed_questions)

\* The outcomes of requests.get + raise_for_status + response.json().
TransportFailures == {"connection_error", "timeout", "http_error", "not_json"}
FailedResp(kind) == [kind |-> kind, payload |-> JNull]
JsonResp(value) == [kind |-> "json", payload |-> value]

fetch_locale_json_from_api_EmptyOnBadShape(resp) ==
    IF resp.kind # "json" THEN NoneResult
    ELSE IF resp.payload.t # "dict" THEN ListResult(<<>>)
    ELSE ProcessEntries(resp.payload.a, <<>>)

fetch_locale_json_from_api(resp) ==
    IF resp.kind # "json" THEN NoneResult
    ELSE IF resp.payload.t # "dict" THEN NoneResult
    ELSE ProcessEntries(resp.payload.a, <<>>)

\* ---------------------------------------------------- document renderer
DigitChars == <<"0", "1", "2", "3", "4", "5", "6", "7", "8", "9">>

\* The decimal digits of a natural number.
RECURSIVE NatChars(_)
NatChars(k) ==
    IF k < 10 THEN <<DigitChars[k + 1]>>
    ELSE NatChars(k \div 10) \o <<DigitChars[(k % 10) + 1]>>

\* The decimal text of an integer: str(k).
IntChars(k) == IF k < 0 THEN <<"-">> \o NatChars(-k) ELSE NatChars(k)

labels == <<"A", "B", "C", "D">>

\* q["alternatives"][:4]
FirstFour(alternatives) ==
    SubSeq(alternatives, 1, IF Len(alternatives) < 4 THEN Len(alternatives) ELSE 4)

\* str(opt.get("score_if_chosen")) == "1". str of a str is the str and of
\* an int its decimal text; the text of any other value is never "1": None,
\* True and False are written by name, the text of a float holds a point or
\* a letter, that of a list opens with a bracket and that of a dict with a
\* brace.
is_correct(opt) ==
    LET score == DictGet(opt, "score_if_chosen", JNull)
    IN  CASE score.t = "str" -> StrChars(score) = <<"1">>
          [] score.t = "int" -> IntChars(score.n) = <<"1">>
          [] OTHER -> FALSE

\* The image elements of the bodies and answers of the questions, which
\* number the fetch outcomes.
ValueImgCount(v) == IF v.t = "str" THEN ImgCount(v.a) ELSE 0

RECURSIVE AltsImgCount(_)
AltsImgCount(alternatives) ==
    IF alternatives = <<>> THEN 0
    ELSE (IF Head(alternatives).t = "dict"
          THEN ValueImgCount(DictGet(Head(alternatives), "answer", JNull))
          ELSE 0) + AltsImgCount(Tail(alternatives))

RECURSIVE DataImgCount(_)
DataImgCount(data) ==
    IF data = <<>> THEN 0
    ELSE ValueImgCount(Head(data).body) + AltsImgCount(Head(data).alternatives.a)
         + DataImgCount(Tail(data))

\* The image elements before question q, and before its i-th alternative.
QuestionOffset(data, q) == DataImgCount(SubSeq(data, 1, q - 1))
OptionOffset(data, q, i) ==
    QuestionOffset(data, q) + ValueImgCount(data[q].body)
    + AltsImgCount(SubSeq(data[q].alternatives.a, 1, i - 1))

\* One turn of the loop over the alternatives, lines 290-301: whether it
\* raises, and the row it adds. opt.get on a value that is no dict raises
\* AttributeError, opt['answer'] on a dict without the key raises KeyError;
\* neither is caught.
OptionRaises(data, q, i, outs) ==
    LET opt == data[q].alternatives.a[i]
    IN  \/ opt.t # "dict"
        \/ ~HasKey(opt, "answer")
        \/ process_html_content(DictGet(opt, "answer", JNull), outs,
                                OptionOffset(data, q, i)).status = "raised"

OptionRow(data, q, i, outs) ==
    LET opt == data[q].alternatives.a[i]
    IN  [row_class |-> IF is_correct(opt) THEN "answer-row correct" ELSE "answer-row",
         label |-> labels[i],
         text |-> process_html_content(DictGet(opt, "answer", JNull), outs,
                                       OptionOffset(data, q, i)).nodes]

\* The alternatives the loop visits and does not pass over: those of
\* q["alternatives"][:4] with opt_idx < len(labels).
ShownCount(data, q) ==
    LET shown == Len(FirstFour(data[q].alternatives.a))
    IN  IF shown < Len(labels) THEN shown ELSE Len(labels)

\* One turn of the loop over the questions, lines 277-305.
QuestionRaises(data, q, outs) ==
    \/ process_html_content(data[q].body, outs, QuestionOffset(data, q)).status = "raised"
    \/ \E i \in 1..ShownCount(data, q) : OptionRaises(data, q, i, outs)

QuestionBlock(data, q, outs) ==
    [number |-> q,
     text |-> process_html_content(data[q].body, outs, QuestionOffset(data, q)).nodes,
     rows |-> [i \in 1..ShownCount(data, q) |-> OptionRow(data, q, i, outs)]]

DocReturned(blocks) == [status |-> "returned", blocks |-> blocks]
DocRaised == [status |-> "raised", blocks |-> <<>>]
DocPending == [status |-> "pending", blocks |-> <<>>]

\* generate_html_with_answers: the document is the fixed head and style
\* followed by one block per question; test_title and syllabus are not used.
generate_html_with_answers(data, test_title, syllabus, outs) ==
    IF \E q \in 1..Len(data) : QuestionRaises(data, q, outs)
    THEN DocRaised
    ELSE DocReturned([q \in 1..Len(data) |-> QuestionBlock(data, q, outs)])

\* ------------------------------------------------- quiz payloads (inputs)
SampleOption(txt, score) ==
    JDict(<<KV("answer", JHtml(<<TextNode(txt)>>)), KV("score_if_chosen", score)>>)

SampleAlternatives ==
    JList(<<SampleOption("X", JStr(<<"1">>)), SampleOption("Y", JStr(<<"0">>))>>)

\* The body of the sample question of kind k: each kind has its own body.
SampleBody(k) == JHtml(<<TextNode(ToString(k))>>)

\* A well-formed "843" object of kind k with the given extra fields.
SampleQuestion(k, extra) ==
    JDict(<<KV("body", SampleBody(k)), KV("alternatives", SampleAlternatives)>> \o extra)

Under843(value) == JDict(<<KV("843", value)>>)

EntryKinds == 1..18

\* The value under one top-level key of the payload, by kind.
EntryOfKind(k) ==
    CASE k = 1 -> JStr(<<"x">>)
      [] k = 2 -> JDict(<<KV("844", SampleQuestion(k, <<KV("language", JList(<<JStr(S843)>>))>>))>>)
      [] k = 3 -> Under843(JNull)
      [] k = 4 -> Under843(JList(<<SampleBody(k)>>))
      [] k = 5 -> Under843(JDict(<<KV("alternatives", SampleAlternatives),
                                   KV("language", JList(<<JStr(S843)>>))>>))
      [] k = 6 -> Under843(JDict(<<KV("body", SampleBody(k)),
                                   KV("language", JList(<<JStr(S843)>>))>>))
      [] k = 7 -> Under843(JDict(<<KV("body", SampleBody(k)),
                                   KV("alternatives", JDict(<<KV("0", SampleOption("X", JInt(1)))>>)),
                                   KV("language", JList(<<JStr(S843)>>))>>))
      [] k = 8 -> Under843(SampleQuestion(k, <<KV("language", JList(<<JStr(S843)>>))>>))
      [] k = 9 -> Under843(SampleQuestion(k,
                      <<KV("language", JList(<<JStr(<<"8", "4", "4">>)>>)),
                        KV("language_names", JList(<<JStr(<<"H", "i">>), JStr(SEnglish)>>))>>))
      [] k = 10 -> Under843(SampleQuestion(k, <<>>))
      [] k = 11 -> Under843(SampleQuestion(k,
                      <<KV("language", JList(<<JStr(<<"8", "4", "4">>)>>)),
                        KV("language_names", JList(<<JStr(<<"H", "i">>)>>))>>))
      [] k = 12 -> Under843(SampleQuestion(k, <<KV("language", JNull)>>))
      [] k = 13 -> Under843(SampleQuestion(k, <<KV("language", JStr(<<"1", "8", "4", "3">>))>>))
      [] k = 14 -> Under843(SampleQuestion(k, <<KV("language", JList(<<JInt(843)>>))>>))
      [] k = 15 -> Under843(SampleQuestion(k,
                      <<KV("language", JList(<<JStr(S843)>>)), KV("language_names", JNull)>>))
      [] k = 16 -> Under843(SampleQuestion(k,
                      <<KV("language", JList(<<>>)), KV("language_names", JInt(7))>>))
      [] k = 17 -> Under843(JDict(<<KV("body", JNull), KV("alternatives", JList(<<>>)),
                                    KV("language_names", JList(<<JStr(SEnglish)>>))>>))
      [] OTHER -> Under843(SampleQuestion(k, <<KV("language", JDict(<<KV("843", JInt(1))>>))>>))

\* A payload that is a mapping: its i-th top-level key holds the entry of kind
\* kinds[i]; the keys are distinct, as the keys of a parsed JSON object are.
PayloadOfKinds(kinds) ==
    JDict([i \in 1..Len(kinds) |-> KV(ToString(54 + i), EntryOfKind(kinds[i]))])

NonMappingPayloads ==
    {JList(<<EntryOfKind(8)>>), JList(<<>>), JStr(<<"x">>), JNull, JInt(5)}

\* The kinds that make up the longer payloads: two entries that are taken
\* (with different records), one without "843", a valid one that is not
\* marked, and one whose marker cannot be read.
CoreEntryKinds == {3, 8, 9, 10, 12}

\* The failures, the payloads that are no mapping, every mapping of up to two
\* entries of any kind, and every mapping of up to MaxKeys core entries.
QuizResponses ==
    {FailedResp(kind) : kind \in TransportFailures}
    \cup {JsonResp(v) : v \in NonMappingPayloads}
    \cup {JsonResp(PayloadOfKinds(kinds)) : kinds \in SeqsUpTo(EntryKinds, 2)}
    \cup {JsonResp(PayloadOfKinds(kinds)) : kinds \in SeqsUpTo(CoreEntryKinds, MaxKeys)}

\* ------------------------------------------------------ metadata fetcher
STest == <<"T", "e", "s", "t", " ">>

MetaReturned(title, description) ==
    [status |-> "returned", title |-> title, description |-> description]
MetaRaised == [status |-> "raised", title |-> <<>>, description |-> <<>>]
MetaPending == [status |-> "pending", title |-> <<>>, description |-> <<>>]

\* f"Test {nid}", ""
MetaDefault(nid) == MetaReturned(STest \o nid, <<>>)

\* The body of the try block once the JSON is parsed: lines 141-146. A call of
\* .get on a value that is no dict, or of .strip on one that is no str, raises
\* AttributeError.
MetaTryBody(nid, data) ==
    IF data.t = "list" /\ data.a # <<>>
    THEN LET item == data.a[1]
         IN  IF item.t # "dict" THEN MetaRaised
             ELSE LET title == DictGet(item, "title", JStr(STest \o nid))
                      description == DictGet(item, "description", JStr(<<>>))
                  IN  IF title.t # "str" \/ description.t # "str" THEN MetaRaised
                      ELSE MetaReturned(Strip(title.s), Strip(description.s))
    ELSE MetaDefault(nid)

\* The three except clauses: each returns the default pair.
fetch_test_title_and_description_NoCatchAll(nid, resp) ==
    IF resp.kind # "json" THEN MetaDefault(nid) ELSE MetaTryBody(nid, resp.payload)

fetch_test_title_and_description(nid, resp) ==
    IF resp.kind # "json" THEN MetaDefault(nid)
    ELSE LET r == MetaTryBody(nid, resp.payload)
         IN  IF r.status = "raised" THEN MetaDefault(nid) ELSE r

\* ---------------------------------------------- metadata payloads (inputs)
SPhysics == <<"\f", "P", "h", "y", "s", "i", "c", "s", "\r">>
SUnit1 == <<"U", "n", "i", "t", " ", "1", "\r", "\n">>

MetaTitles == {JStr(SPhysics), JStr(<<" ">>), JInt(5), JNull, JList(<<JStr(SPhysics)>>)}
MetaDescriptions == {JStr(SUnit1), JInt(0), JNull}

MetaObjects ==
    {JDict(<<>>)}
    \cup {JDict(<<KV("title", t)>>) : t \in MetaTitles}
    \cup {JDict(<<KV("description", d)>>) : d \in MetaDescriptions}
    \cup {JDict(<<KV("title", t), KV("description", d)>>) : t \in MetaTitles, d \in MetaDescriptions}

MetaFirstItems == MetaObjects \cup {JStr(SPhysics), JNull, JList(<<>>), JInt(3)}

MetaRestItems ==
    {<<>>, <<JDict(<<KV("title", JStr(<<"o", "t", "h", "e", "r">>))>>)>>, <<JStr(<<"x">>)>>}

MetaPayloads ==
    {JNull, JList(<<>>), JStr(SPhysics), JInt(0),
     JDict(<<KV("title", JStr(SPhysics)), KV("description", JStr(SUnit1))>>)}
    \cup {JList(<<first>> \o rest) : first \in MetaFirstItems, rest \in MetaRestItems}

MetaResponses ==
    {FailedResp(kind) : kind \in TransportFailures} \cup {JsonResp(v) : v \in MetaPayloads}

SampleNids == {<<"1", "2", "3">>, <<"7">>}

\* ------------------------------------------------ questions (inputs)
SampleImgAnswer == JHtml(<<TextNode("see"), ImgNode(SHttp \o <<"e", "/", "a">>)>>)

AltKinds == 1..6

\* An entry of an alternatives list, by kind.
AltOfKind(k) ==
    CASE k = 1 -> SampleOption("X", JStr(<<"1">>))
      [] k = 2 -> JDict(<<KV("score_if_chosen", JInt(1)), KV("answer", SampleImgAnswer)>>)
      [] k = 3 -> SampleOption("Y", JStr(<<"0">>))
      [] k = 4 -> JDict(<<KV("answer", JNull), KV("score_if_chosen", JFloat(1))>>)
      [] k = 5 -> JStr(<<"x">>)
      [] k = 6 -> JDict(<<KV("score_if_chosen", JStr(<<"1">>))>>)
      [] OTHER -> JDict(<<KV("answer", JHtml(<<TextNode("Z")>>))>>)

ShortAltKinds == {1, 3, 5, 7}

QuestionOfKinds(kinds) ==
    [body |-> JHtml(<<TextNode("Q")>>),
     alternatives |-> JList([i \in 1..Len(kinds) |-> AltOfKind(kinds[i])])]

\* The kinds that make up the longer lists of alternatives.
CoreAltKinds == {1, 2, 3, 5}

\* One question of up to two alternatives of any kind or of up to MaxAlts
\* core alternatives, or up to MaxQuestions questions of up to MaxShortAlts
\* alternatives each.
RenderInputs ==
    {<<QuestionOfKinds(kinds)>> : kinds \in SeqsUpTo(AltKinds, 2)}
    \cup {<<QuestionOfKinds(kinds)>> : kinds \in SeqsUpTo(CoreAltKinds, MaxAlts)}
    \cup {[i \in 1..Len(ks) |-> QuestionOfKinds(ks[i])] :
            ks \in SeqsUpTo(SeqsUpTo(ShortAltKinds, MaxShortAlts), MaxQuestions)}

RenderOutcomes == {ImgOk(TRUE, SJpeg, <<77>>), ImgFailed("timeout")}

\* ------------------------------------------------- conversation handlers
ASK_NID == 0
ASK_PDF_NAME == 1
\* ConversationHandler.END; a conversation that ended has no state.
END == -1

\* The ids are beyond 32 bits and are kept as text.
AUTHORIZED_USER_IDS == {"7927314662", "7686927258"}

\* re.sub(r'[\\/*?:"<>|]', "_", raw_name)
ForbiddenChars == {"\\", "/", "*", "?", ":", "\"", "<", ">", "|"}
Sanitize(raw_name) ==
    [i \in 1..Len(raw_name) |-> IF raw_name[i] \in ForbiddenChars THEN "_" ELSE raw_name[i]]

SExtractedTest == <<"E", "x", "t", "r", "a", "c", "t", "e", "d", "_", "T", "e", "s", "t", "_">>
SSuffix == <<"_", "Q", "P", "_", "w", "i", "t", "h", "_", "A", "n", "s", "w", "e", "r", "_", "K", "e", "y", ".", "h", "t", "m", "l">>

\* What a handler did: the replies that were delivered, in order, the
\* endpoints it queried, the state it returned or that it raised, and for
\* handle_pdf_name the quiz endpoint's answer, what the extraction gave,
\* whether the document was rendered and whether it was sent.
HandlerRun(handler, replies, ret) ==
    [handler |-> handler, replies |-> replies, ret |-> ret, raised |-> FALSE,
     queried |-> <<>>, quizAnswer |-> FailedResp("none"), extracted |-> "n/a",
     questions |-> 0, rendered |-> "no", sent |-> FALSE, filename |-> <<>>]

\* A handler that an exception left: await reply_text(...) raised, or
\* generate_html_with_answers did. No state is returned.
HandlerRaised(run) == [run EXCEPT !.raised = TRUE]

\* The last statements of a handler: reply_text(reply), then return ret.
\* replyOk[k] tells whether the k-th call of reply_text of the handler is
\* delivered; a call that is not raises, and no handler catches that.
ReplyAndReturn(run, reply, ret, ok) ==
    IF ok THEN [run EXCEPT !.replies = @ \o <<reply>>, !.ret = ret]
    ELSE HandlerRaised(run)

NoNid == [has |-> FALSE, nid |-> <<>>]
StoredNid(nid) == [has |-> TRUE, nid |-> nid]

\* The handlers are registered without a filter on the kind of update and
\* polling asks for every kind (allowed_updates=Update.ALL_TYPES), so a
\* handler is also called for an edited message, whose update.message is
\* None: message tells whether update.message is set. Every handler reads an
\* attribute of update.message before it replies, which raises when it is
\* None.
NoMessage(handler) == HandlerRaised(HandlerRun(handler, <<>>, END))

\* start: lines 314-322.
start(message, user, replyOk) ==
    IF ~message THEN NoMessage("start")
    ELSE IF user \notin AUTHORIZED_USER_IDS
    THEN ReplyAndReturn(HandlerRun("start", <<>>, END), "access_denied", END, replyOk[1])
    ELSE ReplyAndReturn(HandlerRun("start", <<>>, END), "ask_nid", ASK_NID, replyOk[1])

\* The digits-only check of handle_nid.
NidAccepted_NoCheck(nid) == TRUE
NidAccepted(nid) == IsDigit(nid)

\* handle_nid: lines 324-333. stored is user_data after the call: the nid is
\* written before the reply is sent, and after update.message.text is read.
handle_nid(message, text, user_data, replyOk) ==
    LET nid == Strip(text)
    IN  IF ~message THEN [run |-> NoMessage("handle_nid"), stored |-> user_data]
        ELSE IF ~NidAccepted(nid)
        THEN [run |-> ReplyAndReturn(HandlerRun("handle_nid", <<>>, ASK_NID),
                                     "invalid_nid", ASK_NID, replyOk[1]),
              stored |-> user_data]
        ELSE [run |-> ReplyAndReturn(HandlerRun("handle_nid", <<>>, ASK_NID),
                                     "ask_name", ASK_PDF_NAME, replyOk[1]),
              stored |-> StoredNid(nid)]

\* `if not data`: None and the empty list are falsy.
NoData_NoneOnly(extraction) == extraction.tag = "None"
NoData(extraction) == extraction.tag = "None" \/ extraction.list = <<>>

\* The try block of lines 362-371: reply_document, then the success reply;
\* an exception of either is caught and answered by the error reply, which
\* is outside any try.
SendDocument(run, sendOk, replyOk) ==
    IF sendOk
    THEN LET sent == [run EXCEPT !.sent = TRUE, !.replies = @ \o <<"document">>]
         IN  IF replyOk[2]
             THEN [sent EXCEPT !.replies = @ \o <<"success">>]
             ELSE ReplyAndReturn(sent, "send_error", END, replyOk[3])
    ELSE ReplyAndReturn(run, "send_error", END, replyOk[2])

\* handle_pdf_name: lines 335-373. metaAnswer and quizAnswer are the answers
\* of the two endpoints, outs the outcomes of the image fetches, sendOk
\* whether reply_document succeeds, replyOk whether each reply_text does. An
\* exception of generate_html_with_answers is not caught and leaves the
\* handler. Without update.message the reply of line 339 or the read of line
\* 342 raises, before any endpoint is queried.
handle_pdf_name(message, text, user_data, metaAnswer, quizAnswer, outs, sendOk, replyOk) ==
    IF ~message THEN NoMessage("handle_pdf_name")
    ELSE IF ~user_data.has \/ user_data.nid = <<>>
    THEN ReplyAndReturn(HandlerRun("handle_pdf_name", <<>>, END), "nid_not_found", END,
                        replyOk[1])
    ELSE IF ~replyOk[1]
    THEN HandlerRaised(HandlerRun("handle_pdf_name", <<>>, END))
    ELSE LET nid == user_data.nid
             raw_name == Strip(text)
             sanitized == Sanitize(raw_name)
             name == IF sanitized = <<>> THEN SExtractedTest \o nid ELSE sanitized
             meta == fetch_test_title_and_description(nid, metaAnswer)
             extraction == fetch_locale_json_from_api(quizAnswer)
             queries == <<[endpoint |-> "getquizfromid", nid |-> nid],
                          [endpoint |-> "getlocalequestions", nid |-> nid]>>
             base == [HandlerRun("handle_pdf_name", <<"processing">>, END)
                         EXCEPT !.queried = queries,
                                !.quizAnswer = quizAnswer,
                                !.extracted = extraction.tag,
                                !.questions = Len(extraction.list)]
         IN  IF NoData(extraction)
             THEN ReplyAndReturn(base, "extraction_failed", END, replyOk[2])
             ELSE LET html_content ==
                          generate_html_with_answers(extraction.list, meta.title,
                                                     meta.description, outs)
                  IN  IF html_content.status = "raised"
                      THEN HandlerRaised([base EXCEPT !.rendered = "raised"])
                      ELSE SendDocument([base EXCEPT !.rendered = "returned",
                                                     !.filename = name \o SSuffix],
                                        sendOk, replyOk)

\* cancel: lines 375-378.
cancel(message, replyOk) ==
    IF ~message THEN NoMessage("cancel")
    ELSE ReplyAndReturn(HandlerRun("cancel", <<>>, END), "cancelled", END, replyOk[1])

\* ------------------------------------------------- conversation (inputs)
Users == {"7927314662", "1000"}
Chats == {"private", "group"}

SampleTexts ==
    {<<"\f", "7", "\r", "\n">>, <<UChar(12288), "\r">>, <<UChar(178)>>, <<"a", "/", "b", "\r">>}

\* Which of the up to three calls of reply_text of a handler are delivered:
\* all, not the first, not the second, neither the second nor the third (the
\* third is reached only when the second was not delivered).
ReplyOutcomes ==
    {<<TRUE, TRUE, TRUE>>, <<FALSE, TRUE, TRUE>>, <<TRUE, FALSE, TRUE>>,
     <<TRUE, FALSE, FALSE>>}

\* A question whose second alternative lacks the answer field, marked English.
MalformedOptionEntry ==
    Under843(JDict(<<KV("body", SampleBody(0)),
                     KV("alternatives",
                        JList(<<SampleOption("X", JStr(<<"1">>)),
                                JDict(<<KV("score_if_chosen", JStr(<<"0">>))>>)>>)),
                     KV("language", JList(<<JStr(S843)>>))>>))

\* A question whose only alternative is a string, marked English.
NonObjectOptionEntry ==
    Under843(JDict(<<KV("body", SampleBody(0)),
                     KV("alternatives", JList(<<JStr(<<"x">>)>>)),
                     KV("language_names", JList(<<JStr(SEnglish)>>))>>))

BotQuizAnswers ==
    {FailedResp("connection_error"),
     JsonResp(JDict(<<>>)),
     JsonResp(PayloadOfKinds(<<10>>)),
     JsonResp(PayloadOfKinds(<<9, 3, 8>>)),
     JsonResp(JDict(<<KV("55", EntryOfKind(8)), KV("56", MalformedOptionEntry)>>)),
     JsonResp(JDict(<<KV("55", NonObjectOptionEntry)>>))}

BotMetaAnswers ==
    {FailedResp("timeout"),
     JsonResp(JList(<<JDict(<<KV("title", JStr(SPhysics)), KV("description", JStr(SUnit1))>>)>>))}

VARIABLES
    quizResp,       \* the quiz endpoint's answer to fetch_locale_json_from_api
    extractResult,  \* what fetch_locale_json_from_api returned
    metaNid,        \* the nid given to fetch_test_title_and_description
    metaResp,       \* the metadata endpoint's answer
    metaResult,     \* what fetch_test_title_and_description returned, or that it raised
    fragment,       \* the argument of process_html_content
    fetchOutcomes,  \* the outcome of the fetch of each image element of the fragment
    rewriteResult,  \* what process_html_content returned, or that it raised
    data,           \* the questions given to generate_html_with_answers
    renderOutcomes, \* the outcome of the fetch of each image element of the questions
    renderResult,   \* what generate_html_with_answers returned, or that it raised
    conv,           \* the conversation state of each (chat, user)
    userData,       \* context.user_data of each user: the stored nid
    lastUpdate      \* the last update received and what its handler did

extractVars == <<quizResp, extractResult>>
metaVars == <<metaNid, metaResp, metaResult>>
rewriteVars == <<fragment, fetchOutcomes, rewriteResult>>
renderVars == <<data, renderOutcomes, renderResult>>
botVars == <<conv, userData, lastUpdate>>
vars == <<extractVars, metaVars, rewriteVars, renderVars, botVars>>

\* The variables of a component no specification at hand uses keep these values.
IdleExtract == quizResp = FailedResp("connection_error") /\ extractResult = PendingResult
IdleRewrite == fragment = JNull /\ fetchOutcomes = <<>> /\ rewriteResult = HtmlPending
IdleRender == data = <<>> /\ renderOutcomes = <<>> /\ renderResult = DocPending
NoUpdate ==
    [chat |-> "", user |-> "", kind |-> "none", text |-> <<>>, message |-> TRUE,
     run |-> HandlerRun("none", <<>>, END), stateBefore |-> END, nidBefore |-> NoNid]
IdleBot ==
    /\ conv = [c \in Chats |-> [u \in Users |-> END]]
    /\ userData = [u \in Users |-> NoNid]
    /\ lastUpdate = NoUpdate
IdleMeta == metaNid = <<>> /\ metaResp = FailedResp("connection_error") /\ metaResult = MetaPending

\* ------------------------------------------------ specification: extract
InitExtract ==
    /\ quizResp \in QuizResponses
    /\ extractResult = PendingResult
    /\ IdleMeta
    /\ IdleRewrite
    /\ IdleRender
    /\ IdleBot

Extract ==
    /\ extractResult.tag = "pending"
    /\ extractResult' = fetch_locale_json_from_api(quizResp)
    /\ UNCHANGED <<quizResp, metaVars, rewriteVars, renderVars, botVars>>

NextExtract == Extract

SpecExtract == InitExtract /\ [][NextExtract]_vars

\* ---------------------------------------------------- claims on extraction
C1_Field(o, key) == o.a[CHOOSE i \in 1..Len(o.a) : o.a[i].k = key].val
C1_Has(o, key) == \E i \in 1..Len(o.a) : o.a[i].k = key

\* A top-level value with a valid "843" object: an object with a body field
\* and an alternatives field that is a sequence.
C1_Valid843(entry) ==
    /\ entry.t = "dict"
    /\ C1_Has(entry, "843")
    /\ C1_Field(entry, "843").t = "dict"
    /\ C1_Has(C1_Field(entry, "843"), "body")
    /\ C1_Has(C1_Field(entry, "843"), "alternatives")
    /\ C1_Field(C1_Field(entry, "843"), "alternatives").t = "list"

C1_Record(entry) ==
    [body |-> C1_Field(C1_Field(entry, "843"), "body"),
     alternatives |-> C1_Field(C1_Field(entry, "843"), "alternatives")]

C1_Records(pairs) == [i \in 1..Len(pairs) |-> C1_Record(pairs[i].val)]

\* The field of an object, an absent field counting as the empty sequence.
C1_Marker(o, key) == IF C1_Has(o, key) THEN C1_Field(o, key) ELSE JList(<<>>)

\* A value that supports membership: a sequence, a string or a mapping.
C1_Container(v) == v.t \in {"list", "str", "dict"}

C1_Contains(v, chars) ==
    \/ v.t = "list" /\ \E i \in 1..Len(v.a) : v.a[i] = JStr(chars)
    \/ v.t = "str" /\ \E i \in 1..Len(v.s) : \E j \in i..Len(v.s) : SubSeq(v.s, i, j) = chars
    \/ v.t = "dict" /\ \E i \in 1..Len(v.a) : KeyChars(v.a[i].k) = chars

C1_English(entry) ==
    LET o == C1_Field(entry, "843")
    IN  \/ C1_Contains(C1_Marker(o, "language"), S843)
        \/ C1_Contains(C1_Marker(o, "language_names"), SEnglish)

\* The marker of a valid object cannot be read: the language field is no
\* container, or it lacks "843" and the language_names field is no container.
C1_Unreadable(entry) ==
    LET o == C1_Field(entry, "843")
    IN  \/ ~C1_Container(C1_Marker(o, "language"))
        \/ /\ ~C1_Contains(C1_Marker(o, "language"), S843)
           /\ ~C1_Container(C1_Marker(o, "language_names"))

C1_Done == extractResult.tag # "pending" /\ quizResp.kind = "json" /\ quizResp.payload.t = "dict"

\* C1 as stated: for a payload that is a mapping, the result is the list of
\* the records {body, alternatives} of exactly the top-level keys that hold a
\* valid "843" object, in the payload's key order.
C1_Original ==
    C1_Done =>
        extractResult =
            ListResult(C1_Records(SelectSeq(quizResp.payload.a,
                                            LAMBDA p : C1_Valid843(p.val))))

\* C1, what the code returns instead: for a payload that is a mapping, the list of
\* the records {body, alternatives} of exactly the top-level keys that hold a
\* valid "843" object which is marked as English (its language field contains
\* "843" or its language_names field contains "English"), in the payload's
\* key order; when the marker of some valid object cannot be read, the result
\* is the failure value instead.
C1_MarkedEnglishOnly ==
    C1_Done =>
        extractResult =
            IF \E i \in 1..Len(quizResp.payload.a) :
                   /\ C1_Valid843(quizResp.payload.a[i].val)
                   /\ C1_Unreadable(quizResp.payload.a[i].val)
            THEN NoneResult
            ELSE ListResult(C1_Records(SelectSeq(quizResp.payload.a,
                     LAMBDA p : C1_Valid843(p.val) /\ C1_English(p.val))))

\* Three top-level keys, one skipped, two distinct records returned in order.
C1_Witness ==
    /\ C1_Done
    /\ Len(quizResp.payload.a) = 3
    /\ extractResult.tag = "list"
    /\ Len(extractResult.list) = 2
    /\ extractResult.list[1] # extractResult.list[2]
    /\ ~C1_Valid843(quizResp.payload.a[2].val)

\* C2: a transport failure (network error, timeout, non-success status,
\* non-JSON body) or a top-level value that is not a mapping gives None, and
\* the empty mapping gives the empty list, which is not None.
C2_FailureIsNone ==
    extractResult.tag # "pending" =>
        /\ quizResp.kind \in TransportFailures => extractResult = NoneResult
        /\ (quizResp.kind = "json" /\ quizResp.payload.t # "dict") => extractResult = NoneResult
        /\ (quizResp.kind = "json" /\ quizResp.payload = JDict(<<>>)) =>
               (extractResult = ListResult(<<>>) /\ extractResult # NoneResult)

C2_Witness ==
    /\ quizResp.kind = "json"
    /\ quizResp.payload.t = "list"
    /\ quizResp.payload.a # <<>>
    /\ extractResult = NoneResult

\* ----------------------------------------------- specification: metadata
InitMeta ==
    /\ metaNid \in SampleNids
    /\ metaResp \in MetaResponses
    /\ metaResult = MetaPending
    /\ IdleExtract
    /\ IdleRewrite
    /\ IdleRender
    /\ IdleBot

FetchMeta ==
    /\ metaResult.status = "pending"
    /\ metaResult' = fetch_test_title_and_description(metaNid, metaResp)
    /\ UNCHANGED <<metaNid, metaResp, extractVars, rewriteVars, renderVars, botVars>>

NextMeta == FetchMeta

SpecMeta == InitMeta /\ [][NextMeta]_vars

\* The first element of the payload is an object whose title and description
\* fields, where present, are strings.
C7_FirstUsable ==
    /\ metaResp.kind = "json"
    /\ metaResp.payload.t = "list"
    /\ metaResp.payload.a # <<>>
    /\ metaResp.payload.a[1].t = "dict"
    /\ \A i \in 1..Len(metaResp.payload.a[1].a) :
           metaResp.payload.a[1].a[i].k \in {"title", "description"}
               => metaResp.payload.a[1].a[i].val.t = "str"

C7_FirstField(key, default) ==
    LET item == metaResp.payload.a[1]
    IN  IF \E i \in 1..Len(item.a) : item.a[i].k = key
        THEN Strip(item.a[CHOOSE i \in 1..Len(item.a) : item.a[i].k = key].val.s)
        ELSE default

\* C7: fetch_test_title_and_description never raises; it returns the default
\* pair ("Test {nid}", "") for a transport failure, a non-JSON body, a payload
\* that is not a non-empty sequence, a first element that is not an object and
\* a title or description that is not a string; otherwise it returns the
\* stripped fields of the first element alone.
C7_NeverRaisesDefaults ==
    metaResult.status # "pending" =>
        /\ metaResult.status = "returned"
        /\ metaResult =
               IF C7_FirstUsable
               THEN [status |-> "returned",
                     title |-> C7_FirstField("title", STest \o metaNid),
                     description |-> C7_FirstField("description", <<>>)]
               ELSE [status |-> "returned", title |-> STest \o metaNid, description |-> <<>>]

\* A first element whose title is a number, followed by a usable second
\* element: the default pair is returned.
C7_Witness ==
    /\ metaResp.kind = "json"
    /\ metaResp.payload.t = "list"
    /\ Len(metaResp.payload.a) = 2
    /\ metaResp.payload.a[1] = JDict(<<KV("title", JInt(5)), KV("description", JStr(SUnit1))>>)
    /\ metaResp.payload.a[2].t = "dict"
    /\ metaResult = MetaDefault(metaNid)

\* ------------------------------------------------ specification: rewrite
\* Fragments of up to MaxNodes nodes, each image fetch with one of a few
\* outcomes.
InitRewrite ==
    /\ fragment \in SampleFragments
    /\ fetchOutcomes = <<>>
    /\ rewriteResult = HtmlPending
    /\ IdleExtract
    /\ IdleMeta
    /\ IdleRender
    /\ IdleBot

Rewrite(outcomes) ==
    /\ rewriteResult.status = "pending"
    /\ \E outs \in [1..ImgCount(fragment.a) -> outcomes] :
           /\ fetchOutcomes' = outs
           /\ rewriteResult' = process_html_content(fragment, outs, 0)
    /\ UNCHANGED <<fragment, extractVars, metaVars, renderVars, botVars>>

RewriteCoarse == Rewrite(CoarseOutcomes)

NextRewrite == RewriteCoarse

SpecRewrite == InitRewrite /\ [][NextRewrite]_vars

\* ------------------------------------------------- specification: inline
\* Fragments of one image element, its fetch with any body of up to MaxBody
\* bytes.
InitInline ==
    /\ fragment \in {JHtml(<<ImgNode(src)>>) : src \in SampleSrcs}
    /\ fetchOutcomes = <<>>
    /\ rewriteResult = HtmlPending
    /\ IdleExtract
    /\ IdleMeta
    /\ IdleRender
    /\ IdleBot

RewriteRich == Rewrite(RichOutcomes)

NextInline == RewriteRich

SpecInline == InitInline /\ [][NextInline]_vars

\* ----------------------------------------------------- claims on rewriting
\* The protocol-normalized form of a src: a leading "//" becomes "https://".
C4_Normalized(src) ==
    IF Len(src) >= 2 /\ src[1] = "/" /\ src[2] = "/"
    THEN <<"h", "t", "t", "p", "s", ":">> \o src
    ELSE src

\* An image element whose normalized src starts with http:// or https://.
C4_Qualifies(node) ==
    /\ node.tag = "img"
    /\ node.hasSrc
    /\ \/ StartsWith(C4_Normalized(node.src), <<"h", "t", "t", "p", ":", "/", "/">>)
       \/ StartsWith(C4_Normalized(node.src), <<"h", "t", "t", "p", "s", ":", "/", "/">>)

\* The fetch outcome of the image element at node i of the fragment.
C4_OutcomeAt(i) == fetchOutcomes[ImgCount(SubSeq(fragment.a, 1, i))]

C4_Rewritten == rewriteResult.status # "pending" /\ fragment.t = "str" /\ fragment.a # <<>>

\* C4: no exception escapes process_html_content; an image element whose
\* fetch fails keeps the protocol-normalized src, and the other image
\* elements of the fragment are still inlined.
C4_FailedFetchKeepsUrl ==
    rewriteResult.status # "pending" =>
        /\ rewriteResult.status = "returned"
        /\ C4_Rewritten =>
            /\ Len(rewriteResult.nodes) = Len(fragment.a)
            /\ \A i \in 1..Len(fragment.a) :
                   C4_Qualifies(fragment.a[i]) =>
                       IF C4_OutcomeAt(i).kind = "ok"
                       THEN StartsWith(rewriteResult.nodes[i].src, SData)
                       ELSE rewriteResult.nodes[i].src = C4_Normalized(fragment.a[i].src)

\* A protocol-relative image whose fetch fails, followed by an image whose
\* fetch succeeds.
C4_Witness ==
    /\ C4_Rewritten
    /\ Len(fragment.a) = 2
    /\ fragment.a[1] = ImgNode(<<"/", "/", "e", "/", "a">>)
    /\ C4_Qualifies(fragment.a[2])
    /\ fetchOutcomes[1].kind = "timeout"
    /\ fetchOutcomes[2].kind = "ok"
    /\ rewriteResult.nodes[1].src = <<"h", "t", "t", "p", "s", ":", "/", "/", "e", "/", "a">>
    /\ StartsWith(rewriteResult.nodes[2].src, SData)

C5_Value(c) == CHOOSE v \in 0..63 : B64Alphabet[v + 1] = c

\* The bytes a base64 text stands for (RFC 4648 decoding).
RECURSIVE C5_Decode(_)
C5_Decode(chars) ==
    IF Len(chars) < 4 THEN <<>>
    ELSE LET v1 == C5_Value(chars[1])
             v2 == C5_Value(chars[2])
             b1 == v1 * 4 + v2 \div 16
         IN  IF chars[3] = "=" THEN <<b1>>
             ELSE LET v3 == C5_Value(chars[3])
                      b2 == (v2 % 16) * 16 + v3 \div 4
                  IN  IF chars[4] = "=" THEN <<b1, b2>>
                      ELSE <<b1, b2, (v3 % 4) * 64 + C5_Value(chars[4])>>
                           \o C5_Decode(SubSeq(chars, 5, Len(chars)))

C5_Prefix(outcome) ==
    <<"d", "a", "t", "a", ":">>
    \o (IF outcome.hasCtype THEN outcome.ctype
        ELSE <<"i", "m", "a", "g", "e", "/", "p", "n", "g">>)
    \o <<";", "b", "a", "s", "e", "6", "4", ",">>

C5_Payload(src, outcome) == SubSeq(src, Len(C5_Prefix(outcome)) + 1, Len(src))

\* C5: the src of an image element whose fetch succeeds is
\* data:{content-type};base64,{payload}, the content type being the response's
\* header (image/png without one) and the payload decoding to the body.
C5_DataUriRoundTrip ==
    (rewriteResult.status = "returned" /\ fragment.t = "str") =>
        \A i \in 1..Len(fragment.a) :
            (C4_Qualifies(fragment.a[i]) /\ C4_OutcomeAt(i).kind = "ok") =>
                LET src == rewriteResult.nodes[i].src
                    o == C4_OutcomeAt(i)
                IN  /\ StartsWith(src, C5_Prefix(o))
                    /\ Len(C5_Payload(src, o)) % 4 = 0
                    /\ \A j \in 1..Len(C5_Payload(src, o)) :
                           \/ \E v \in 1..64 : B64Alphabet[v] = C5_Payload(src, o)[j]
                           \/ C5_Payload(src, o)[j] = "=" /\ j >= Len(C5_Payload(src, o)) - 1
                    /\ C5_Decode(C5_Payload(src, o)) = o.body

\* A fetched body of two bytes (one padding character) without a Content-Type
\* header.
C5_Witness ==
    /\ rewriteResult.status = "returned"
    /\ fragment = JHtml(<<ImgNode(SHttp \o <<"e", "/", "a">>)>>)
    /\ fetchOutcomes = <<ImgOk(FALSE, <<>>, <<255, 77>>)>>
    /\ rewriteResult.nodes[1].src =
           <<"d", "a", "t", "a", ":", "i", "m", "a", "g", "e", "/", "p", "n", "g",
             ";", "b", "a", "s", "e", "6", "4", ",", "/", "0", "0", "=">>

C9_Urls(nodes) == [i \in 1..Len(nodes) |-> C4_Normalized(nodes[i].src)]

\* C9: the fetches are exactly the normalized URLs of the qualifying image
\* elements, one per element in document order (a repeated URL is fetched
\* again); an element that does not qualify is left as it is; an absent or
\* empty fragment gives the empty string and no fetch.
C9_OneFetchPerQualifyingImage ==
    rewriteResult.status # "pending" =>
        /\ rewriteResult.fetched = C9_Urls(SelectSeq(fragment.a, C4_Qualifies))
        /\ C4_Rewritten =>
               \A i \in 1..Len(fragment.a) :
                   ~C4_Qualifies(fragment.a[i]) => rewriteResult.nodes[i] = fragment.a[i]
        /\ (fragment = JNull \/ fragment = JHtml(<<>>)) =>
               (rewriteResult.nodes = <<>> /\ rewriteResult.fetched = <<>>)

\* The same URL in two image elements, fetched twice.
C9_Witness ==
    /\ C4_Rewritten
    /\ Len(fragment.a) = 2
    /\ C4_Qualifies(fragment.a[1])
    /\ fragment.a[2] = fragment.a[1]
    /\ Len(rewriteResult.fetched) = 2
    /\ rewriteResult.fetched[1] = rewriteResult.fetched[2]

\* ------------------------------------------------- specification: render
InitRender ==
    /\ data \in RenderInputs
    /\ renderOutcomes = <<>>
    /\ renderResult = DocPending
    /\ IdleExtract
    /\ IdleMeta
    /\ IdleRewrite
    /\ IdleBot

Generate ==
    /\ renderResult.status = "pending"
    /\ \E outs \in [1..DataImgCount(data) -> RenderOutcomes] :
           /\ renderOutcomes' = outs
           /\ renderResult' = generate_html_with_answers(data, <<>>, <<>>, outs)
    /\ UNCHANGED <<data, extractVars, metaVars, rewriteVars, botVars>>

NextRender == Generate

SpecRender == InitRender /\ [][NextRender]_vars

\* ----------------------------------------------------- claims on rendering
\* An alternative the renderer can read: an object with an answer field that
\* is a string or null.
C6_WellFormed(opt) ==
    /\ opt.t = "dict"
    /\ \E i \in 1..Len(opt.a) : opt.a[i].k = "answer" /\ opt.a[i].val.t \in {"str", "null"}

\* The score_if_chosen field is the string "1" or the integer 1: the values
\* whose string form is "1".
C6_ScoresOne(opt) ==
    \E i \in 1..Len(opt.a) :
        /\ opt.a[i].k = "score_if_chosen"
        /\ \/ opt.a[i].val.t = "str" /\ opt.a[i].val.s = <<"1">>
           \/ opt.a[i].val.t = "int" /\ opt.a[i].val.n = 1

C6_Min4(k) == IF k < 4 THEN k ELSE 4

C6_AllWellFormed ==
    \A q \in 1..Len(data) :
        \A i \in 1..C6_Min4(Len(data[q].alternatives.a)) :
            C6_WellFormed(data[q].alternatives.a[i])

C6_Rows ==
    /\ Len(renderResult.blocks) = Len(data)
    /\ \A q \in 1..Len(data) :
        LET alts == data[q].alternatives.a
            rows == renderResult.blocks[q].rows
        IN  /\ renderResult.blocks[q].number = q
            /\ Len(rows) = C6_Min4(Len(alts))
            /\ \A i \in 1..Len(rows) :
                   /\ rows[i].label = <<"A", "B", "C", "D">>[i]
                   /\ (rows[i].row_class = "answer-row correct") <=> C6_ScoresOne(alts[i])
                   /\ rows[i].row_class \in {"answer-row correct", "answer-row"}

\* C6: for every question given to generate_html_with_answers the document
\* has a block, in order, with min(4, number of alternatives) rows, the i-th
\* labelled with the i-th of A, B, C, D, and a row is marked correct exactly
\* when the string form of its score_if_chosen is "1", whether none, one or
\* several rows are.
C6_RowsLabelsMarks ==
    renderResult.status # "pending" => (renderResult.status = "returned" /\ C6_Rows)

\* What holds of C6: the rows, labels and marks are as stated whenever the
\* document is produced, and it is produced when the first four alternatives
\* of every question are option objects with an answer.
C6_RowsOfOptionObjects ==
    renderResult.status # "pending" =>
        /\ C6_AllWellFormed => renderResult.status = "returned"
        /\ renderResult.status = "returned" => C6_Rows

\* Five alternatives, two of the first four marked correct, the fifth (which
\* would be correct) not rendered.
C6_Witness ==
    /\ renderResult.status = "returned"
    /\ Len(data) = 1
    /\ Len(data[1].alternatives.a) = 5
    /\ C6_ScoresOne(data[1].alternatives.a[5])
    /\ Len(renderResult.blocks[1].rows) = 4
    /\ renderResult.blocks[1].rows[1].row_class = "answer-row correct"
    /\ renderResult.blocks[1].rows[2].row_class = "answer-row correct"
    /\ renderResult.blocks[1].rows[3].row_class = "answer-row"
    /\ renderResult.blocks[1].rows[4].label = "D"

\* --------------------------------------------------- specification: bot
\* The ConversationHandler of main(): /start is the only entry point, a text
\* that is no command goes to the handler of the conversation's state,
\* /cancel is the fallback of both states; any other update is not handled.
\* A handler that raises leaves the conversation's state as it was.
InitBot ==
    /\ IdleBot
    /\ IdleExtract
    /\ IdleMeta
    /\ IdleRewrite
    /\ IdleRender

\* An update and its handling: whether it is a new message (update.message
\* is set) or an edited one, the state of the conversation and the stored nid
\* when it arrived, and what the handler did.
Update(chat, user, kind, text, message, run) ==
    [chat |-> chat, user |-> user, kind |-> kind, text |-> text, message |-> message,
     run |-> run, stateBefore |-> conv[chat][user], nidBefore |-> userData[user]]

otherVars == <<extractVars, metaVars, rewriteVars, renderVars>>

\* A handler that raised leaves the state of the conversation as it was.
StateAfter(chat, user, run) == IF run.raised THEN conv[chat][user] ELSE run.ret

\* The outcomes a handler can meet: for an update without message it raises
\* before any is consulted, so one stands for all.
Consulted(message, outcomes) == IF message THEN outcomes ELSE {CHOOSE o \in outcomes : TRUE}

Start(chat, user) ==
    /\ conv[chat][user] = END
    /\ \E message \in BOOLEAN :
         \E ok \in Consulted(message, BOOLEAN) :
           LET run == start(message, user, <<ok>>)
           IN  /\ lastUpdate' = Update(chat, user, "/start", <<>>, message, run)
               /\ conv' = [conv EXCEPT ![chat][user] = StateAfter(chat, user, run)]
    /\ UNCHANGED <<userData, otherVars>>

HandleNid(chat, user, text) ==
    /\ conv[chat][user] = ASK_NID
    /\ \E message \in BOOLEAN :
         \E ok \in Consulted(message, BOOLEAN) :
           LET r == handle_nid(message, text, userData[user], <<ok>>)
           IN  /\ lastUpdate' = Update(chat, user, "text", text, message, r.run)
               /\ userData' = [userData EXCEPT ![user] = r.stored]
               /\ conv' = [conv EXCEPT ![chat][user] = StateAfter(chat, user, r.run)]
    /\ UNCHANGED otherVars

HandlePdfName(chat, user, text) ==
    /\ conv[chat][user] = ASK_PDF_NAME
    /\ \E message \in BOOLEAN :
         \E metaAnswer \in Consulted(message, BotMetaAnswers),
            quizAnswer \in Consulted(message, BotQuizAnswers),
            sendOk \in Consulted(message, BOOLEAN),
            replyOk \in Consulted(message, ReplyOutcomes) :
           \E outs \in Consulted(message,
                         [1..DataImgCount(fetch_locale_json_from_api(quizAnswer).list)
                             -> RenderOutcomes]) :
             LET run == handle_pdf_name(message, text, userData[user], metaAnswer,
                                        quizAnswer, outs, sendOk, replyOk)
             IN  /\ lastUpdate' = Update(chat, user, "text", text, message, run)
                 /\ conv' = [conv EXCEPT ![chat][user] = StateAfter(chat, user, run)]
    /\ UNCHANGED <<userData, otherVars>>

Cancel(chat, user) ==
    /\ conv[chat][user] # END
    /\ \E message \in BOOLEAN :
         \E ok \in Consulted(message, BOOLEAN) :
           LET run == cancel(message, <<ok>>)
           IN  /\ lastUpdate' = Update(chat, user, "/cancel", <<>>, message, run)
               /\ conv' = [conv EXCEPT ![chat][user] = StateAfter(chat, user, run)]
    /\ UNCHANGED <<userData, otherVars>>

\* An update no handler takes, new or edited: outside a conversation anything
\* but /start, inside one /start and any other command.
NotHandled(chat, user, kind, text) ==
    /\ \/ conv[chat][user] = END /\ kind \in {"text", "/cancel", "/other"}
       \/ conv[chat][user] # END /\ kind \in {"/start", "/other"}
    /\ kind = "text" \/ text = <<>>
    /\ \E message \in BOOLEAN :
         lastUpdate' = Update(chat, user, kind, text, message,
                              HandlerRun("none", <<>>, conv[chat][user]))
    /\ UNCHANGED <<conv, userData, otherVars>>

NextBot ==
    \E chat \in Chats, user \in Users :
        \/ Start(chat, user)
        \/ Cancel(chat, user)
        \/ \E text \in SampleTexts : HandleNid(chat, user, text)
        \/ \E text \in SampleTexts : HandlePdfName(chat, user, text)
        \/ \E kind \in {"text", "/start", "/cancel", "/other"}, text \in SampleTexts \cup {<<>>} :
               NotHandled(chat, user, kind, text)

SpecBot == InitBot /\ [][NextBot]_vars

\* ------------------------------------------------ claims on the handlers
C3_Run == lastUpdate.run

C3_NoData == C3_Run.extracted = "None" \/ (C3_Run.extracted = "list" /\ C3_Run.questions = 0)

\* C3 as stated: when the extraction gives the failure value or an empty
\* sequence, handle_pdf_name reports "no data", neither renders nor sends a
\* document and ends the conversation; a document is sent only after an
\* extraction that gave at least one question.
C3_Original ==
    C3_Run.handler = "handle_pdf_name" =>
        /\ C3_NoData =>
               /\ C3_Run.replies = <<"processing", "extraction_failed">>
               /\ C3_Run.rendered = "no"
               /\ ~C3_Run.sent
               /\ conv[lastUpdate.chat][lastUpdate.user] = END
        /\ C3_Run.sent =>
               (C3_Run.extracted = "list" /\ C3_Run.questions >= 1 /\ C3_Run.rendered = "returned")

\* C3 as amended: when the extraction gives the failure value or an empty
\* sequence, handle_pdf_name neither renders nor sends a document and sends
\* the "no data" reply; when that reply is delivered it is the only one after
\* the processing notice and the conversation ends, and when sending it
\* raises, the exception leaves the handler and the conversation stays in
\* ASK_PDF_NAME. A document is sent only after an extraction that gave at
\* least one question.
C3_NoDataNoDocument ==
    C3_Run.handler = "handle_pdf_name" =>
        /\ C3_NoData =>
               /\ C3_Run.rendered = "no"
               /\ ~C3_Run.sent
               /\ IF C3_Run.raised
                  THEN /\ C3_Run.replies = <<"processing">>
                       /\ conv[lastUpdate.chat][lastUpdate.user] = ASK_PDF_NAME
                  ELSE /\ C3_Run.replies = <<"processing", "extraction_failed">>
                       /\ C3_Run.ret = END
                       /\ conv[lastUpdate.chat][lastUpdate.user] = END
        /\ (C3_Run.queried # <<>>
            /\ (C3_Run.quizAnswer.kind # "json" \/ C3_Run.quizAnswer.payload.a = <<>>)) =>
               (C3_NoData /\ C3_Run.rendered = "no" /\ ~C3_Run.sent)
        /\ C3_Run.sent =>
               (C3_Run.extracted = "list" /\ C3_Run.questions >= 1 /\ C3_Run.rendered = "returned")

\* The quiz endpoint answers {}: the extraction gives the empty list, the
\* reply is delivered and the conversation has ended.
C3_Witness ==
    /\ C3_Run.handler = "handle_pdf_name"
    /\ C3_Run.quizAnswer = JsonResp(JDict(<<>>))
    /\ C3_Run.extracted = "list"
    /\ C3_Run.questions = 0
    /\ C3_Run.replies = <<"processing", "extraction_failed">>
    /\ conv[lastUpdate.chat][lastUpdate.user] = END

\* C8: an option entry that is not an object, or lacks the answer field, in
\* an otherwise valid payload does not abort the request: after an extraction
\* that gave questions the document is generated.
C8_MalformedOptionSkipped ==
    (C3_Run.handler = "handle_pdf_name" /\ C3_Run.extracted = "list" /\ C3_Run.questions >= 1) =>
        C3_Run.rendered = "returned"

C10_Authorized(user) == user = "7927314662" \/ user = "7686927258"

\* What the digits-only check (str.isdigit) passes: one or more characters,
\* each a digit.
C10_Digits(s) == Len(s) >= 1 /\ \A i \in 1..Len(s) : s[i] \in Digits

\* C10: the endpoints are queried and a document is sent only by
\* handle_pdf_name in a conversation that was in ASK_PDF_NAME, for an
\* authorized user and with a stored nid of digits only; only an authorized
\* user is ever in a conversation; a /start of anyone else ends at once; a
\* text that is not a number leaves the conversation in ASK_NID and the stored
\* nid as it was; a conversation in ASK_PDF_NAME has a nid of digits stored;
\* an edited message gets no reply, queries nothing and changes neither the
\* state of the conversation nor the stored nid.
C10_OnlyAuthorizedValidNid ==
    /\ \A c \in Chats, u \in Users : conv[c][u] # END => C10_Authorized(u)
    /\ \A u \in Users : userData[u].has => (C10_Authorized(u) /\ C10_Digits(userData[u].nid))
    /\ \A c \in Chats, u \in Users :
           conv[c][u] = ASK_PDF_NAME => (userData[u].has /\ C10_Digits(userData[u].nid))
    /\ (lastUpdate.run.queried # <<>> \/ lastUpdate.run.sent \/ lastUpdate.run.rendered # "no") =>
           /\ lastUpdate.run.handler = "handle_pdf_name"
           /\ C10_Authorized(lastUpdate.user)
           /\ \A i \in 1..Len(lastUpdate.run.queried) :
                  /\ C10_Digits(lastUpdate.run.queried[i].nid)
                  /\ lastUpdate.run.queried[i].nid = lastUpdate.nidBefore.nid
    /\ lastUpdate.run.handler = "handle_pdf_name" => lastUpdate.stateBefore = ASK_PDF_NAME
    /\ (lastUpdate.kind = "/start" /\ ~C10_Authorized(lastUpdate.user)) =>
           /\ lastUpdate.run.replies \in {<<>>, <<"access_denied">>}
           /\ conv[lastUpdate.chat][lastUpdate.user] = END
    /\ (lastUpdate.run.handler = "handle_nid" /\ ~C10_Digits(Strip(lastUpdate.text))) =>
           /\ conv[lastUpdate.chat][lastUpdate.user] = ASK_NID
           /\ userData[lastUpdate.user] = lastUpdate.nidBefore
    /\ ~lastUpdate.message =>
           /\ lastUpdate.run.replies = <<>> /\ lastUpdate.run.queried = <<>>
           /\ conv[lastUpdate.chat][lastUpdate.user] = lastUpdate.stateBefore
           /\ userData[lastUpdate.user] = lastUpdate.nidBefore

\* A document sent for a nid that was typed with blanks around it, after a
\* text that was no number had been refused in the other chat.
C10_Witness ==
    /\ lastUpdate.run.sent
    /\ lastUpdate.chat = "group"
    /\ lastUpdate.run.queried[2].nid = <<"7">>
    /\ conv["private"][lastUpdate.user] = ASK_NID

====
